---- MODULE Spec2Model ----
(***************************************************************************)
(* rust-bank: JWT authentication (auth.rs) and the HTTP handlers           *)
(* (handlers.rs) over the users / stocks / transactions tables, and the    *)
(* connection pool that the handlers share (db.rs, main.rs).               *)
(*                                                                         *)
(* Uuid values are naturals; a string that is meant to hold a UUID is a    *)
(* pair <<form, n>>: to_string always writes the "lower" (hyphenated       *)
(* lower-case) form, parse_str also reads the "upper" form and rejects     *)
(* every other string.  Time is whole seconds since the epoch.             *)
(***************************************************************************)
EXTENDS Integers, Sequences, FiniteSets, TLC

VARIABLES
    transactions,   \* the transactions table: a set of rows
    clock,          \* Utc::now() in seconds
    schedule,       \* the clock advances still to come (bounds the model)
    jwtSecretEnv,   \* the JWT_SECRET environment variable of the process
    leeway,         \* leeway of jsonwebtoken's Validation::default()
    users,          \* the users table: written outside the handlers
    conn,           \* per request slot: where it stands with the pool
    last            \* the last request handled and its response

vars == <<transactions, clock, schedule, jwtSecretEnv, leeway, users, conn, last>>

----------------------------------------------------------------------------
(* Bounds *)

NumTxIds == 2           \* Uuid::new_v4 draws from this many identities
MaxTicks == 4           \* clock advances per behaviour of SpecAuth
LedgerTicks == 1        \* clock advances per behaviour of Spec
StartTime == 100        \* clock value at start
NumRequests == 6        \* requests in flight at the same time in SpecPool

(* Program constants *)

TokenTTL == 3600        \* Duration::hours(1)
MaxConnections == 5     \* SqlitePoolOptions::new().max_connections(5)
DefaultSecret == "secretkey"
LeewayDefaults == {0, 60}   \* Validation::default(): 0 up to jsonwebtoken 7, 60 from 8

----------------------------------------------------------------------------
(* Uuid and its string conversions *)

\* Uuids 1, 2, 3 are the ids of the users rows, 5 and 7 are the ids of the
\* stocks rows; 4 and 6 are Uuids that no row has.  Request bodies name the
\* stock ids of StockIds, and 6.
StockIds == {5}
TxIds    == 10 .. (9 + NumTxIds)

NotAUuid == <<"garbage", 0>>
EmptyStr == <<"", 0>>

to_string(u) == <<"lower", u>>
UpperStr(u)  == <<"upper", u>>

parse_str(s) ==
    IF s[1] \in {"lower", "upper"}
    THEN [ok |-> TRUE, val |-> s[2]]
    ELSE [ok |-> FALSE, val |-> 0]

----------------------------------------------------------------------------
(* Tables created outside the handlers *)

bcrypt_hash(pw) == [format |-> "bcrypt", pw |-> pw]

bcrypt_verify(candidate, stored) ==
    IF stored.format = "bcrypt"
    THEN [ok |-> TRUE, val |-> (stored.pw = candidate)]
    ELSE [ok |-> FALSE, val |-> FALSE]

UsersTable ==
    { [id |-> to_string(1), username |-> "alice", hashed_password |-> bcrypt_hash("pw123")],
      [id |-> to_string(2), username |-> "bob",   hashed_password |-> bcrypt_hash("pw456")],
      [id |-> to_string(3), username |-> "carol", hashed_password |-> [format |-> "plain", pw |-> "pw123"]] }

StocksTable ==
    { [id |-> to_string(5), symbol |-> "AAPL", price |-> 150],
      [id |-> to_string(7), symbol |-> "MSFT", price |-> 300] }

----------------------------------------------------------------------------
(* auth.rs *)

Secret == IF jwtSecretEnv.set THEN jwtSecretEnv.val ELSE DefaultSecret

MalformedToken == [wf |-> FALSE, sub |-> EmptyStr, exp |-> 0, key |-> ""]

\* create_token writing the subject in upper case.
create_token_upper(user_id) ==
    [wf |-> TRUE, sub |-> UpperStr(user_id), exp |-> clock + TokenTTL, key |-> Secret]

create_token(user_id) ==
    [wf |-> TRUE, sub |-> to_string(user_id), exp |-> clock + TokenTTL, key |-> Secret]

None == [some |-> FALSE, val |-> EmptyStr]
Some(v) == [some |-> TRUE, val |-> v]

\* validate_token without the signature check.
validate_token_no_sig(token) ==
    IF ~token.wf THEN None
    ELSE IF token.exp < clock - leeway THEN None
    ELSE Some(token.sub)

\* validate_token without the expiry check.
validate_token_no_exp(token) ==
    IF ~token.wf THEN None
    ELSE IF token.key # Secret THEN None
    ELSE Some(token.sub)

\* validate_token taking a token for expired from its expiry instant on.
validate_token_strict(token) ==
    IF ~token.wf THEN None
    ELSE IF token.key # Secret THEN None
    ELSE IF token.exp <= clock THEN None
    ELSE Some(token.sub)

validate_token(token) ==
    IF ~token.wf THEN None
    ELSE IF token.key # Secret THEN None
    ELSE IF token.exp < clock - leeway THEN None
    ELSE Some(token.sub)

----------------------------------------------------------------------------
(* Requests *)

Prefixes == {"Bearer ", "bearer ", "Basic "}

NoHeader == [present |-> FALSE, ascii |-> TRUE, prefix |-> "", token |-> MalformedToken]

\* The subjects a presented token may carry.
Subjects == {to_string(1), UpperStr(1), to_string(2), to_string(4), NotAUuid}

\* Expiry of a presented token: one issued at StartTime, one long expired.
Expiries == {StartTime + TokenTTL, 0}

Secrets == {DefaultSecret, "prodkey"}

Jwt(sub, exp, key) == [wf |-> TRUE, sub |-> sub, exp |-> exp, key |-> key]

Tokens ==
    {MalformedToken} \cup
    { Jwt(s, StartTime + TokenTTL, k) : s \in Subjects, k \in Secrets } \cup
    { Jwt(to_string(1), e, k) : e \in Expiries, k \in Secrets }

Bearer(token) == [present |-> TRUE, ascii |-> TRUE, prefix |-> "Bearer ", token |-> token]

\* A token for user 1 that validate_token accepts at StartTime.
GoodToken == Jwt(to_string(1), StartTime + TokenTTL, Secret)

Headers ==
    {NoHeader} \cup
    { [Bearer(GoodToken) EXCEPT !.ascii = FALSE] } \cup
    { [Bearer(GoodToken) EXCEPT !.prefix = p] : p \in Prefixes \ {"Bearer "} } \cup
    { Bearer(t) : t \in Tokens }

\* The headers of Spec: none, and unexpired tokens under the process's secret.
LedgerHeaders ==
    {NoHeader} \cup
    { Bearer(Jwt(s, StartTime + TokenTTL, Secret)) : s \in {to_string(1), to_string(2)} }

\* The headers of SpecOrders: none, and unexpired tokens under the process's
\* secret for alice (in both spellings of her id), bob and a Uuid without a
\* users row.
OrderHeaders ==
    {NoHeader} \cup
    { Bearer(Jwt(s, StartTime + TokenTTL, Secret)) :
        s \in {to_string(1), UpperStr(1), to_string(2), to_string(4)} }

Quantities == {-1, 0, 2}

\* The JSON body of /buy and /sell as the client sends it; user_id is a field
\* the client may add.
RawBodies ==
    [stock_id : StockIds \cup {6}, quantity : Quantities, user_id : {2}]

\* #[derive(Deserialize)] keeps the declared fields and ignores the others.
TransactionRequest(raw) == [stock_id |-> raw.stock_id, quantity |-> raw.quantity]

Usernames == {"alice", "bob", "carol", "nobody"}
Passwords == {"pw123", "pw456"}

----------------------------------------------------------------------------
(* Responses *)

NoTx == [id |-> EmptyStr, user_id |-> EmptyStr, stock_id |-> EmptyStr,
         quantity |-> 0, transaction_type |-> ""]
NoStock == [id |-> EmptyStr, symbol |-> "", price |-> 0]

Response(status, msg) ==
    [status |-> status, msg |-> msg, token |-> MalformedToken, tx |-> NoTx,
     list |-> <<>>, stock |-> NoStock]

ErrorUnauthorized(msg) == Response(401, msg)
ErrorInternalServerError(msg) == Response(500, msg)

NoLogin == [username |-> "", hashed_password |-> ""]
NoBody == [stock_id |-> 0, quantity |-> 0, user_id |-> 0]

\* A handled request: what came in, what went out, and what the handler did on
\* the way: storeOps counts its store calls, dbErr tells whether the store call
\* failed on the store's side, rows are the rows a SELECT fetched, issuedAt is
\* when the token of a successful login was issued (else 0), id is the Uuid
\* that Uuid::new_v4 gave a buy or sell (else 0).
Handled(op, hdr, login, raw, symbol, resp, storeOps, dbErr, rows) ==
    [op |-> op, hdr |-> hdr, login |-> login, raw |-> raw, symbol |-> symbol,
     resp |-> resp, storeOps |-> storeOps, dbErr |-> dbErr, rows |-> rows,
     id |-> 0,
     issuedAt |-> IF op = "login" /\ resp.status = 200 THEN clock ELSE 0]

----------------------------------------------------------------------------
(* handlers.rs: authorize *)

headerStr(hdr) == IF hdr.present /\ hdr.ascii THEN hdr ELSE NoHeader

Ok(v) == [ok |-> TRUE, val |-> v, msg |-> ""]
Err(msg) == [ok |-> FALSE, val |-> 0, msg |-> msg]

\* authorize taking the token after any scheme prefix.
authorize_any_scheme(hdr) ==
    LET header == headerStr(hdr) IN
    IF ~header.present
    THEN Err("Missing or malformed Authorization header")
    ELSE LET sub == validate_token(header.token) IN
         IF ~sub.some THEN Err("Invalid token")
         ELSE LET id == parse_str(sub.val) IN
              IF ~id.ok THEN Err("Invalid user ID in token")
              ELSE Ok(id.val)

authorize(hdr) ==
    LET header == headerStr(hdr) IN
    IF header.prefix # "Bearer "
    THEN Err("Missing or malformed Authorization header")
    ELSE LET sub == validate_token(header.token) IN
         IF ~sub.some THEN Err("Invalid token")
         ELSE LET id == parse_str(sub.val) IN
              IF ~id.ok THEN Err("Invalid user ID in token")
              ELSE Ok(id.val)

----------------------------------------------------------------------------
(* The store: the schema of the migrations, as the specification states it *)

\* PRIMARY KEY on transactions.id, FOREIGN KEYs to users.id and stocks.id.
StoreAccepts(row) ==
    /\ \A t \in transactions : t.id # row.id
    /\ \E u \in users : u.id = row.user_id
    /\ \E s \in StocksTable : s.id = row.stock_id

\* created_at is assigned by the store when the row is written.
Stored(row) ==
    [id |-> row.id, user_id |-> row.user_id, stock_id |-> row.stock_id,
     quantity |-> row.quantity, transaction_type |-> row.transaction_type,
     created_at |-> clock]

\* All orders of a set of rows: the SELECT without its ORDER BY.
AnyOrder(rows) ==
    { f \in [1 .. Cardinality(rows) -> rows] :
        \A i, j \in DOMAIN f : i # j => f[i] # f[j] }

\* All orders of a set of rows that satisfy ORDER BY created_at DESC.
OrderByCreatedAtDesc(rows) ==
    { f \in [1 .. Cardinality(rows) -> rows] :
        /\ \A i, j \in DOMAIN f : i # j => f[i] # f[j]
        /\ \A i, j \in DOMAIN f : i < j => f[i].created_at >= f[j].created_at }

----------------------------------------------------------------------------
(* handlers.rs: the statements *)

\* SelectUser without its WHERE clause.
SelectUserAny(username) == users

SelectUser(username) == { u \in users : u.username = username }

\* InsertValues binding the magnitude of the quantity.
InsertValuesMagnitude(id, user_id, body, kind) ==
    [id |-> to_string(id), user_id |-> to_string(user_id),
     stock_id |-> to_string(body.stock_id),
     quantity |-> IF body.quantity < 0 THEN 0 - body.quantity ELSE body.quantity,
     transaction_type |-> kind]

InsertValues(id, user_id, body, kind) ==
    [id |-> to_string(id), user_id |-> to_string(user_id),
     stock_id |-> to_string(body.stock_id), quantity |-> body.quantity,
     transaction_type |-> kind]

TransactionJson(id, user_id, body, kind) ==
    [id |-> to_string(id), user_id |-> to_string(user_id),
     stock_id |-> to_string(body.stock_id), quantity |-> body.quantity,
     transaction_type |-> kind]

\* SelectTransactions without its WHERE clause.
SelectAllTransactions(user_id) == transactions

SelectTransactions(user_id) ==
    { t \in transactions : t.user_id = to_string(user_id) }

\* SelectStock without its WHERE clause.
SelectStockAny(symbol) == StocksTable

SelectStock(symbol) == { s \in StocksTable : s.symbol = symbol }

\* get_transactions, lines 135-141: one fetched row to a Transaction.
RowToTransaction(row) ==
    LET id == parse_str(row.id)
        uid == parse_str(row.user_id)
        sid == parse_str(row.stock_id)
    IN IF ~id.ok THEN [ok |-> FALSE, val |-> NoTx, msg |-> "Invalid UUID in id"]
       ELSE IF ~uid.ok THEN [ok |-> FALSE, val |-> NoTx, msg |-> "Invalid UUID in user_id"]
       ELSE IF ~sid.ok THEN [ok |-> FALSE, val |-> NoTx, msg |-> "Invalid UUID in stock_id"]
       ELSE [ok |-> TRUE, msg |-> "",
             val |-> [id |-> to_string(id.val), user_id |-> to_string(uid.val),
                      stock_id |-> to_string(sid.val), quantity |-> row.quantity,
                      transaction_type |-> row.transaction_type]]

----------------------------------------------------------------------------
(* handlers.rs: the handlers *)

\* Login telling an unknown username from a wrong password.
LoginLeaky(username, password, dbErr) ==
    LET req == [username |-> username, hashed_password |-> password]
        found == SelectUser(username)
        Done(resp) == Handled("login", NoHeader, req, NoBody, "", resp, 1, dbErr, <<>>)
    IN
    /\ IF dbErr \/ found = {}
       THEN last' = Done(Response(401, "User not found"))
       ELSE \E row \in found :
              LET verified == bcrypt_verify(password, row.hashed_password)
                  user_id == parse_str(row.id)
              IN IF ~(verified.ok /\ verified.val)
                 THEN last' = Done(Response(401, "Invalid credentials"))
                 ELSE IF ~user_id.ok
                 THEN last' = Done(Response(0, "panic"))
                 ELSE last' = Done([Response(200, "") EXCEPT
                                      !.token = create_token(user_id.val)])
    /\ UNCHANGED <<transactions, clock, schedule, jwtSecretEnv, leeway, users>>

Login(username, password, dbErr) ==
    LET req == [username |-> username, hashed_password |-> password]
        found == SelectUser(username)
        Done(resp) == Handled("login", NoHeader, req, NoBody, "", resp, 1, dbErr, <<>>)
    IN
    /\ IF dbErr \/ found = {}
       THEN last' = Done(Response(401, "Invalid credentials"))
       ELSE \E row \in found :
              LET verified == bcrypt_verify(password, row.hashed_password)
                  user_id == parse_str(row.id)
              IN IF ~(verified.ok /\ verified.val)
                 THEN last' = Done(Response(401, "Invalid credentials"))
                 ELSE IF ~user_id.ok
                 THEN last' = Done(Response(0, "panic"))
                 ELSE last' = Done([Response(200, "") EXCEPT
                                      !.token = create_token(user_id.val)])
    /\ UNCHANGED <<transactions, clock, schedule, jwtSecretEnv, leeway, users>>

\* RecordTransaction with INSERT OR REPLACE: a row with the same id is replaced.
RecordTransactionReplace(op, kind, failure, hdr, raw, id, dbErr) ==
    LET body == TransactionRequest(raw)
        auth == authorize(hdr)
        Done(resp, n) ==
            [Handled(op, hdr, NoLogin, raw, "", resp, n, n > 0 /\ dbErr, <<>>)
               EXCEPT !.id = IF n > 0 THEN id ELSE 0]
    IN
    IF ~auth.ok
    THEN /\ last' = Done(ErrorUnauthorized(auth.msg), 0)
         /\ UNCHANGED transactions
    ELSE LET row == InsertValues(id, auth.val, body, kind) IN
         IF dbErr \/ ~(\E u \in users : u.id = row.user_id)
                  \/ ~(\E k \in StocksTable : k.id = row.stock_id)
         THEN /\ last' = Done(ErrorInternalServerError(failure), 1)
              /\ UNCHANGED transactions
         ELSE /\ transactions' =
                    {t \in transactions : t.id # row.id} \cup {Stored(row)}
              /\ last' = Done([Response(200, "") EXCEPT
                                 !.tx = TransactionJson(id, auth.val, body, kind)], 1)

\* RecordTransaction taking the owner of the row from the body's user_id.
RecordTransactionBodyOwner(op, kind, failure, hdr, raw, id, dbErr) ==
    LET body == TransactionRequest(raw)
        auth == authorize(hdr)
        Done(resp, n) ==
            [Handled(op, hdr, NoLogin, raw, "", resp, n, n > 0 /\ dbErr, <<>>)
               EXCEPT !.id = IF n > 0 THEN id ELSE 0]
    IN
    IF ~auth.ok
    THEN /\ last' = Done(ErrorUnauthorized(auth.msg), 0)
         /\ UNCHANGED transactions
    ELSE LET row == InsertValues(id, raw.user_id, body, kind) IN
         IF dbErr \/ ~StoreAccepts(row)
         THEN /\ last' = Done(ErrorInternalServerError(failure), 1)
              /\ UNCHANGED transactions
         ELSE /\ transactions' = transactions \cup {Stored(row)}
              /\ last' = Done([Response(200, "") EXCEPT
                                 !.tx = TransactionJson(id, raw.user_id, body, kind)], 1)

\* RecordTransaction answering 200 whatever the INSERT returned.
RecordTransactionIgnoreErr(op, kind, failure, hdr, raw, id, dbErr) ==
    LET body == TransactionRequest(raw)
        auth == authorize(hdr)
        Done(resp, n) ==
            [Handled(op, hdr, NoLogin, raw, "", resp, n, n > 0 /\ dbErr, <<>>)
               EXCEPT !.id = IF n > 0 THEN id ELSE 0]
    IN
    IF ~auth.ok
    THEN /\ last' = Done(ErrorUnauthorized(auth.msg), 0)
         /\ UNCHANGED transactions
    ELSE LET row == InsertValues(id, auth.val, body, kind) IN
         /\ transactions' = IF dbErr \/ ~StoreAccepts(row)
                            THEN transactions
                            ELSE transactions \cup {Stored(row)}
         /\ last' = Done([Response(200, "") EXCEPT
                            !.tx = TransactionJson(id, auth.val, body, kind)], 1)

\* RecordTransaction issuing the INSERT a second time when the first call
\* failed; the second call reaches the store.
RecordTransactionRetry(op, kind, failure, hdr, raw, id, dbErr) ==
    LET body == TransactionRequest(raw)
        auth == authorize(hdr)
        Done(resp, n) ==
            [Handled(op, hdr, NoLogin, raw, "", resp, n, n > 0 /\ dbErr, <<>>)
               EXCEPT !.id = IF n > 0 THEN id ELSE 0]
        calls == IF dbErr THEN 2 ELSE 1
    IN
    IF ~auth.ok
    THEN /\ last' = Done(ErrorUnauthorized(auth.msg), 0)
         /\ UNCHANGED transactions
    ELSE LET row == InsertValues(id, auth.val, body, kind) IN
         IF ~StoreAccepts(row)
         THEN /\ last' = Done(ErrorInternalServerError(failure), calls)
              /\ UNCHANGED transactions
         ELSE /\ transactions' = transactions \cup {Stored(row)}
              /\ last' = Done([Response(200, "") EXCEPT
                                 !.tx = TransactionJson(id, auth.val, body, kind)], calls)

\* The rows that count towards what a user holds of a stock, and their total.
PriorBuys(user_id, stock_id) ==
    { t \in transactions : /\ t.transaction_type = "buy"
                           /\ t.user_id = to_string(user_id)
                           /\ t.stock_id = to_string(stock_id) }

RECURSIVE SumQuantity(_)
SumQuantity(rows) ==
    IF rows = {} THEN 0
    ELSE LET r == CHOOSE x \in rows : TRUE
         IN r.quantity + SumQuantity(rows \ {r})

\* RecordTransaction refusing a sell of more than the user has bought.
RecordTransactionCovered(op, kind, failure, hdr, raw, id, dbErr) ==
    LET body == TransactionRequest(raw)
        auth == authorize(hdr)
        Done(resp, n) ==
            [Handled(op, hdr, NoLogin, raw, "", resp, n, n > 0 /\ dbErr, <<>>)
               EXCEPT !.id = IF n > 0 THEN id ELSE 0]
    IN
    IF ~auth.ok
    THEN /\ last' = Done(ErrorUnauthorized(auth.msg), 0)
         /\ UNCHANGED transactions
    ELSE IF kind = "sell"
            /\ body.quantity > SumQuantity(PriorBuys(auth.val, body.stock_id))
    THEN /\ last' = Done(Response(400, "Insufficient holdings"), 0)
         /\ UNCHANGED transactions
    ELSE LET row == InsertValues(id, auth.val, body, kind) IN
         IF dbErr \/ ~StoreAccepts(row)
         THEN /\ last' = Done(ErrorInternalServerError(failure), 1)
              /\ UNCHANGED transactions
         ELSE /\ transactions' = transactions \cup {Stored(row)}
              /\ last' = Done([Response(200, "") EXCEPT
                                 !.tx = TransactionJson(id, auth.val, body, kind)], 1)

RecordTransaction(op, kind, failure, hdr, raw, id, dbErr) ==
    LET body == TransactionRequest(raw)
        auth == authorize(hdr)
        Done(resp, n) ==
            [Handled(op, hdr, NoLogin, raw, "", resp, n, n > 0 /\ dbErr, <<>>)
               EXCEPT !.id = IF n > 0 THEN id ELSE 0]
    IN
    IF ~auth.ok
    THEN /\ last' = Done(ErrorUnauthorized(auth.msg), 0)
         /\ UNCHANGED transactions
    ELSE LET row == InsertValues(id, auth.val, body, kind) IN
         IF dbErr \/ ~StoreAccepts(row)
         THEN /\ last' = Done(ErrorInternalServerError(failure), 1)
              /\ UNCHANGED transactions
         ELSE /\ transactions' = transactions \cup {Stored(row)}
              /\ last' = Done([Response(200, "") EXCEPT
                                 !.tx = TransactionJson(id, auth.val, body, kind)], 1)

Buy(hdr, raw, id, dbErr) ==
    /\ RecordTransaction("buy", "buy", "Failed to record buy transaction",
                         hdr, raw, id, dbErr)
    /\ UNCHANGED <<clock, schedule, jwtSecretEnv, leeway, users>>

Sell(hdr, raw, id, dbErr) ==
    /\ RecordTransaction("sell", "sell", "Failed to record sell transaction",
                         hdr, raw, id, dbErr)
    /\ UNCHANGED <<clock, schedule, jwtSecretEnv, leeway, users>>

List(hdr, dbErr) ==
    LET auth == authorize(hdr)
        Done(resp, n, rows) ==
            Handled("list", hdr, NoLogin, NoBody, "", resp, n, n > 0 /\ dbErr, rows)
    IN
    /\ IF ~auth.ok
       THEN last' = Done(ErrorUnauthorized(auth.msg), 0, <<>>)
       ELSE IF dbErr
       THEN last' = Done(ErrorInternalServerError("Failed to query transactions"), 1, <<>>)
       ELSE \E rows \in OrderByCreatedAtDesc(SelectTransactions(auth.val)) :
              LET results == [i \in DOMAIN rows |-> RowToTransaction(rows[i])] IN
              IF \E i \in DOMAIN results : ~results[i].ok
              THEN LET first == CHOOSE i \in DOMAIN results :
                                    /\ ~results[i].ok
                                    /\ \A j \in 1 .. (i - 1) : results[j].ok
                   IN last' = Done(ErrorInternalServerError(results[first].msg), 1, rows)
              ELSE last' = Done([Response(200, "") EXCEPT
                                   !.list = [i \in DOMAIN results |-> results[i].val]],
                                1, rows)
    /\ UNCHANGED <<transactions, clock, schedule, jwtSecretEnv, leeway, users>>

GetStock(symbol, dbErr) ==
    LET found == SelectStock(symbol)
        Done(resp) ==
            Handled("stock", NoHeader, NoLogin, NoBody, symbol, resp, 1, dbErr, <<>>)
    IN
    /\ IF dbErr \/ found = {}
       THEN last' = Done(Response(404, "Stock not found or DB error"))
       ELSE \E row \in found :
              LET id == parse_str(row.id) IN
              IF ~id.ok
              THEN last' = Done(Response(500, "Invalid UUID in id"))
              ELSE last' = Done([Response(200, "") EXCEPT
                                   !.stock = [id |-> to_string(id.val),
                                              symbol |-> symbol, price |-> row.price]])
    /\ UNCHANGED <<transactions, clock, schedule, jwtSecretEnv, leeway, users>>

\* Time passes between requests.
Tick ==
    /\ schedule # <<>>
    /\ clock' = clock + Head(schedule)
    /\ schedule' = Tail(schedule)
    /\ UNCHANGED <<transactions, jwtSecretEnv, leeway, users, conn, last>>

----------------------------------------------------------------------------

Symbols == {"AAPL", "MSFT", "NONE"}
\* The symbols of the specifications that are not about stocks.
TwoSymbols == {"AAPL", "NONE"}

NoRequest ==
    Handled("none", NoHeader, NoLogin, NoBody, "", Response(0, ""), 0, FALSE, <<>>)

EnvUnset == [set |-> FALSE, val |-> ""]
EnvSet(v) == [set |-> TRUE, val |-> v]

\* The request slots of the server, and the start: no request is in flight.
Slots == 1 .. NumRequests

Start ==
    /\ transactions = {}
    /\ clock = StartTime
    /\ conn = [r \in Slots |-> "idle"]
    /\ last = NoRequest

\* One body, and the one transaction identity, of Spec and SpecAuth.
OneBody == {[stock_id |-> 5, quantity |-> 2, user_id |-> 2]}
OneTxId == {10}

\* Spec: the ledger.  The headers of LedgerHeaders, one body, the logins of
\* one user, every transaction identity for Buy and one for Sell (SpecHoldings
\* has every identity for both); JWT_SECRET unset.
LedgerUsernames == {"alice"}

Init ==
    /\ Start
    /\ users = UsersTable
    /\ schedule = [i \in 1 .. LedgerTicks |-> 1]
    /\ jwtSecretEnv = EnvUnset
    /\ leeway = 60

Next ==
    \/ \E n \in LedgerUsernames, p \in Passwords, e \in BOOLEAN : Login(n, p, e) /\ UNCHANGED conn
    \/ \E h \in LedgerHeaders, b \in OneBody, i \in TxIds, e \in BOOLEAN : Buy(h, b, i, e) /\ UNCHANGED conn
    \/ \E h \in LedgerHeaders, b \in OneBody, i \in OneTxId, e \in BOOLEAN : Sell(h, b, i, e) /\ UNCHANGED conn
    \/ \E h \in LedgerHeaders, e \in BOOLEAN : List(h, e) /\ UNCHANGED conn
    \/ \E s \in TwoSymbols, e \in BOOLEAN : GetStock(s, e) /\ UNCHANGED conn
    \/ Tick

Spec == Init /\ [][Next]_vars

\* SpecAuth: authentication.  Every header, every configuration, the clock
\* stepping over the expiry of a token; one body and one transaction identity.

\* The instants at which SpecAuth looks at the clock, for a token issued at
\* StartTime: its expiry, one second later, one minute later, and one second
\* after that.
ExpirySteps(i) ==
    CASE i = 1 -> TokenTTL
      [] i = 3 -> 59
      [] OTHER -> 1

InitAuth ==
    /\ Start
    /\ users = UsersTable
    /\ schedule = [i \in 1 .. MaxTicks |-> ExpirySteps(i)]
    /\ jwtSecretEnv \in {EnvUnset, EnvSet("prodkey")}
    /\ leeway \in LeewayDefaults

NextAuth ==
    \/ \E n \in Usernames, p \in Passwords, e \in BOOLEAN : Login(n, p, e) /\ UNCHANGED conn
    \/ \E h \in Headers, b \in OneBody, i \in OneTxId, e \in BOOLEAN : Buy(h, b, i, e) /\ UNCHANGED conn
    \/ \E h \in Headers, b \in OneBody, i \in OneTxId, e \in BOOLEAN : Sell(h, b, i, e) /\ UNCHANGED conn
    \/ \E h \in Headers, e \in BOOLEAN : List(h, e) /\ UNCHANGED conn
    \/ \E s \in TwoSymbols, e \in BOOLEAN : GetStock(s, e) /\ UNCHANGED conn
    \/ Tick

SpecAuth == InitAuth /\ [][NextAuth]_vars

\* SpecSession: the life of an issued token.  The configurations and the clock
\* of SpecAuth; the headers carry the tokens that a Login of alice or bob at
\* StartTime returns, under either secret.
SessionHeaders ==
    { Bearer(Jwt(to_string(u), StartTime + TokenTTL, k)) : u \in {1, 2}, k \in Secrets }

NextSession ==
    \/ \E n \in {"alice", "bob"}, p \in Passwords, e \in BOOLEAN : Login(n, p, e) /\ UNCHANGED conn
    \/ \E h \in SessionHeaders, b \in OneBody, i \in OneTxId, e \in BOOLEAN : Buy(h, b, i, e) /\ UNCHANGED conn
    \/ \E h \in SessionHeaders, b \in OneBody, i \in OneTxId, e \in BOOLEAN : Sell(h, b, i, e) /\ UNCHANGED conn
    \/ \E h \in SessionHeaders, e \in BOOLEAN : List(h, e) /\ UNCHANGED conn
    \/ Tick

SpecSession == InitAuth /\ [][NextSession]_vars

\* SpecOrders: the bodies.  Every body, the headers of OrderHeaders, one
\* transaction identity; JWT_SECRET unset.
NextOrders ==
    \/ \E n \in Usernames, p \in Passwords, e \in BOOLEAN : Login(n, p, e) /\ UNCHANGED conn
    \/ \E h \in OrderHeaders, b \in RawBodies, i \in OneTxId, e \in BOOLEAN : Buy(h, b, i, e) /\ UNCHANGED conn
    \/ \E h \in OrderHeaders, b \in RawBodies, i \in OneTxId, e \in BOOLEAN : Sell(h, b, i, e) /\ UNCHANGED conn
    \/ \E h \in OrderHeaders, e \in BOOLEAN : List(h, e) /\ UNCHANGED conn
    \/ \E s \in TwoSymbols, e \in BOOLEAN : GetStock(s, e) /\ UNCHANGED conn
    \/ Tick

SpecOrders == Init /\ [][NextOrders]_vars

\* SpecHoldings: one user's buys and sells of one stock, and nothing else.
\* Every quantity and every transaction identity, with or without the user's
\* credential.
HoldingHeaders == {NoHeader, Bearer(GoodToken)}
HoldingBodies == [stock_id : StockIds, quantity : Quantities, user_id : {2}]

NextHoldings ==
    \/ \E h \in HoldingHeaders, b \in HoldingBodies, i \in TxIds, e \in BOOLEAN : Buy(h, b, i, e) /\ UNCHANGED conn
    \/ \E h \in HoldingHeaders, b \in HoldingBodies, i \in TxIds, e \in BOOLEAN : Sell(h, b, i, e) /\ UNCHANGED conn

SpecHoldings == Init /\ [][NextHoldings]_vars

\* SpecStore: the contents of the users table.  The table is written outside
\* the handlers and its id column is text: it starts empty, as UsersTable, or
\* with one more row whose id is not a UUID.
MalformedUser ==
    [id |-> NotAUuid, username |-> "dave", hashed_password |-> bcrypt_hash("pw123")]

InitStore ==
    /\ Start
    /\ users \in {{}, UsersTable, UsersTable \cup {MalformedUser}}
    /\ schedule = [i \in 1 .. LedgerTicks |-> 1]
    /\ jwtSecretEnv = EnvUnset
    /\ leeway = 60

NextStore ==
    \/ \E n \in Usernames \cup {"dave"}, p \in Passwords, e \in BOOLEAN : Login(n, p, e) /\ UNCHANGED conn
    \/ \E h \in LedgerHeaders, b \in OneBody, i \in OneTxId, e \in BOOLEAN : Buy(h, b, i, e) /\ UNCHANGED conn
    \/ \E h \in LedgerHeaders, b \in OneBody, i \in OneTxId, e \in BOOLEAN : Sell(h, b, i, e) /\ UNCHANGED conn
    \/ \E h \in LedgerHeaders, e \in BOOLEAN : List(h, e) /\ UNCHANGED conn
    \/ \E s \in Symbols, e \in BOOLEAN : GetStock(s, e) /\ UNCHANGED conn
    \/ Tick

SpecStore == InitStore /\ [][NextStore]_vars

----------------------------------------------------------------------------
(* db.rs, main.rs: the connection pool that the handlers share *)

\* The connections that requests hold.
InUse == Cardinality({ r \in Slots : conn[r] = "holding" })

\* The handler that SpecPool runs on a connection: every handler makes its one
\* store call on pool.get_ref() in the same way, and get_stock stands for them;
\* failed tells whether that call returns Err.
PoolHandler(failed) == GetStock("AAPL", failed)

\* A request reaches its store call and asks the pool for a connection.
Arrive(r) ==
    /\ conn[r] = "idle"
    /\ conn' = [conn EXCEPT ![r] = "waiting"]
    /\ UNCHANGED <<transactions, clock, schedule, jwtSecretEnv, leeway, users, last>>

\* Acquire without the ceiling of the pool.
AcquireUnbounded(r) ==
    /\ conn[r] = "waiting"
    /\ conn' = [conn EXCEPT ![r] = "holding"]
    /\ UNCHANGED <<transactions, clock, schedule, jwtSecretEnv, leeway, users, last>>

\* The pool hands a waiting request a connection when fewer than
\* max_connections are out.
Acquire(r) ==
    /\ conn[r] = "waiting"
    /\ InUse < MaxConnections
    /\ conn' = [conn EXCEPT ![r] = "holding"]
    /\ UNCHANGED <<transactions, clock, schedule, jwtSecretEnv, leeway, users, last>>

\* The statement runs on the connection, the connection goes back to the pool
\* and the handler answers.
StoreCall(r) ==
    /\ conn[r] = "holding"
    /\ conn' = [conn EXCEPT ![r] = "idle"]
    /\ \E failed \in BOOLEAN : PoolHandler(failed)

\* The pool gives up on a waiting request (its acquire timeout): the store
\* call returns Err without a connection.
Timeout(r) ==
    /\ conn[r] = "waiting"
    /\ conn' = [conn EXCEPT ![r] = "idle"]
    /\ PoolHandler(TRUE)

NextPool ==
    \/ \E r \in Slots : Arrive(r)
    \/ \E r \in Slots : Acquire(r)
    \/ \E r \in Slots : StoreCall(r)
    \/ \E r \in Slots : Timeout(r)

SpecPool == Init /\ [][NextPool]_vars

\* Store calls end, and the pool serves its waiters in turn.
SpecPoolFair ==
    /\ SpecPool
    /\ \A r \in Slots : WF_vars(StoreCall(r)) /\ SF_vars(Acquire(r))

----------------------------------------------------------------------------
(* Properties *)

AuthorizedOps == {"buy", "sell", "list"}

\* The identity a credential names: its subject, read as parse_str reads it and
\* written as to_string writes it.
Principal(token) == to_string(parse_str(token.sub).val)

\* C1: a successful Buy or Sell was made with a verified credential and
\* persisted exactly one row, of its kind, whose user_id is the identity that
\* credential names, whatever user_id the request body carried; the response
\* echoes the same owner.
C1_OwnerIsPrincipal ==
    (last.op \in {"buy", "sell"} /\ last.resp.status = 200) =>
        /\ last.hdr.prefix = "Bearer "
        /\ last.hdr.token.wf
        /\ last.hdr.token.key = Secret
        /\ parse_str(last.hdr.token.sub).ok
        /\ last.resp.tx.user_id = Principal(last.hdr.token)
        /\ \E t \in transactions :
             /\ t.id = last.resp.tx.id
             /\ t.user_id = Principal(last.hdr.token)
             /\ t.transaction_type = last.op
        /\ \A t \in transactions :
             t.id = last.resp.tx.id => t.user_id = Principal(last.hdr.token)

\* A Buy by user 1 whose body names user 2 stored a row owned by user 1.
C1_Witness ==
    /\ last.op = "buy"
    /\ last.resp.status = 200
    /\ last.hdr.token.sub \in {to_string(1), UpperStr(1)}
    /\ last.raw.user_id = 2
    /\ \E t \in transactions : t.id = last.resp.tx.id /\ t.user_id = to_string(1)

\* C2: a Login that names an existing user with the password of the stored
\* hash, and whose lookup the store answered, returns 200 with a token that
\* validate_token maps to that user's id for as long as it has not expired;
\* and no Login returns a token for anyone but the user it named.
C2_LoginBindsIdentity ==
    /\ \A u \in users :
         ( /\ last.op = "login"
           /\ ~last.dbErr
           /\ last.login.username = u.username
           /\ u.hashed_password = bcrypt_hash(last.login.hashed_password) )
         => /\ last.resp.status = 200
            /\ last.resp.token.sub = u.id
            /\ clock <= last.resp.token.exp => validate_token(last.resp.token) = Some(u.id)
    /\ (last.op = "login" /\ last.resp.status = 200) =>
         \E u \in users :
            /\ u.username = last.login.username
            /\ u.hashed_password = bcrypt_hash(last.login.hashed_password)
            /\ last.resp.token.sub = u.id

\* bob logged in and his token verifies as bob, not as alice.
C2_Witness ==
    /\ last.op = "login"
    /\ last.login = [username |-> "bob", hashed_password |-> "pw456"]
    /\ last.resp.status = 200
    /\ validate_token(last.resp.token) = Some(to_string(2))

KnownUser(name) == \E u \in users : u.username = name

PasswordMatches(name, pw) ==
    \E u \in users : u.username = name /\ u.hashed_password = bcrypt_hash(pw)

\* C3: a Login with an unknown username and a Login with a known username and
\* a password that does not match get one and the same response, status 401
\* with the message "Invalid credentials" and no token.
C3_LoginFailuresUniform ==
    ( /\ last.op = "login"
      /\ \/ ~KnownUser(last.login.username)
         \/ ~PasswordMatches(last.login.username, last.login.hashed_password) )
    => last.resp = Response(401, "Invalid credentials")

\* alice was refused for a wrong password.
C3_Witness ==
    /\ last.op = "login"
    /\ ~last.dbErr
    /\ last.login = [username |-> "alice", hashed_password |-> "pw456"]
    /\ last.resp.status = 401

\* An unknown user was refused.
C3_WitnessUnknown ==
    /\ last.op = "login"
    /\ ~last.dbErr
    /\ last.login.username = "nobody"
    /\ last.resp.status = 401

IssuedNow == last.op = "login" /\ last.resp.status = 200

BadCredential(hdr) ==
    \/ ~hdr.present
    \/ ~hdr.ascii
    \/ hdr.prefix # "Bearer "
    \/ ~validate_token(hdr.token).some
    \/ ~parse_str(validate_token(hdr.token).val).ok

\* C5: a Buy, Sell or List whose header names no identity is answered 401,
\* makes no store call and leaves the transactions as they were.
C5_UnauthorizedTouchesNothing ==
    [][ ( /\ last' # last
          /\ last'.op \in AuthorizedOps
          /\ BadCredential(last'.hdr) )
        => /\ last'.resp.status = 401
           /\ last'.storeOps = 0
           /\ transactions' = transactions ]_vars

\* A Buy under the scheme "Basic" with an otherwise good token was refused
\* while the ledger holds a row.
C5_Witness ==
    /\ last.op = "buy"
    /\ last.hdr.prefix = "Basic "
    /\ last.resp.status = 401
    /\ last.storeOps = 0
    /\ transactions # {}

\* C6: every 401 of Buy, Sell and List carries one message, whatever the
\* cause: the message just returned is the message every header that authorize
\* rejects would get.
C6_OneUnauthorizedMessage ==
    (last.op \in AuthorizedOps /\ last.resp.status = 401) =>
        \A h \in Headers : ~authorize(h).ok => authorize(h).msg = last.resp.msg

\* What List answers for a stored row.
Listed(t) ==
    [id |-> t.id, user_id |-> t.user_id, stock_id |-> t.stock_id,
     quantity |-> t.quantity, transaction_type |-> t.transaction_type]

ListedNow == last.op = "list" /\ last.resp.status = 200

\* C7: a successful List answers with the caller's rows, all of them, each
\* once, and with no row of another user.
C7_ListExactlyOwn ==
    ListedNow =>
        LET U == Principal(last.hdr.token)
            own == {t \in transactions : t.user_id = U}
            list == last.resp.list
        IN /\ Len(list) = Cardinality(own)
           /\ \A i \in DOMAIN list : list[i].user_id = U
           /\ \A t \in own : \E i \in DOMAIN list : list[i] = Listed(t)

\* alice lists while the ledger holds one row of hers and one of bob's, and
\* gets hers alone.
C7_Witness ==
    /\ ListedNow
    /\ Principal(last.hdr.token) = to_string(1)
    /\ \E t \in transactions : t.user_id = to_string(2)
    /\ \E t \in transactions : t.user_id = to_string(1)
    /\ Len(last.resp.list) = 1
    /\ last.resp.list[1].user_id = to_string(1)

\* C8 as stated: of two consecutive rows of a List, the first has the strictly
\* later created_at.
C8_StrictlyDescending ==
    ListedNow =>
        /\ \A i \in DOMAIN last.rows : last.resp.list[i] = Listed(last.rows[i])
        /\ \A i \in 1 .. (Len(last.rows) - 1) :
             last.rows[i].created_at > last.rows[i + 1].created_at

\* C8, amended: of two consecutive rows of a List, the first has the later or
\* the same created_at.
C8_Descending ==
    ListedNow =>
        /\ \A i \in DOMAIN last.rows : last.resp.list[i] = Listed(last.rows[i])
        /\ \A i \in 1 .. (Len(last.rows) - 1) :
             last.rows[i].created_at >= last.rows[i + 1].created_at

\* A List of two rows written a second apart: the newer one comes first.
C8_Witness ==
    /\ ListedNow
    /\ Len(last.rows) = 2
    /\ last.rows[1].created_at > last.rows[2].created_at

\* C9: validate_token rejects every token signed with another secret than the
\* process's, whatever its subject and expiry, and a Buy, Sell or List that
\* presents one is answered 401.
C9_WrongSecretRejected ==
    /\ \A t \in Tokens : (t.wf /\ t.key # Secret) => validate_token(t) = None
    /\ ( /\ last.op \in AuthorizedOps
         /\ last.hdr.token.wf
         /\ last.hdr.token.key # Secret )
       => last.resp.status = 401

\* A Buy with an unexpired token for alice, signed with another secret, was
\* refused.
C9_Witness ==
    /\ last.op = "buy"
    /\ last.hdr.prefix = "Bearer "
    /\ last.hdr.token = Jwt(to_string(1), StartTime + TokenTTL, "prodkey")
    /\ Secret = DefaultSecret
    /\ clock = StartTime
    /\ last.resp.status = 401

\* C10: every row of the transactions is there, unchanged, after every step,
\* and Login, List and Get stock leave the transactions as they were.
C10_AppendOnly ==
    [][ /\ \A t \in transactions : t \in transactions'
        /\ (last' # last /\ last'.op \in {"login", "list", "stock"})
             => transactions' = transactions ]_vars

\* A second row was written and the first is still there.
C10_Witness ==
    /\ Cardinality(transactions) = 2
    /\ last.op = "sell"
    /\ last.resp.status = 200
    /\ \E t \in transactions : t.id # last.resp.tx.id /\ t.created_at < clock

\* What can make the store refuse the INSERT of the last buy or sell: the call
\* failed, the owner or the stock has no row, or the identity is taken.
StoreRefusal ==
    \/ last.dbErr
    \/ ~(\E u \in users : u.id = Principal(last.hdr.token))
    \/ ~(\E k \in StocksTable : k.id = to_string(last.raw.stock_id))
    \/ \E t \in transactions : t.id = to_string(last.id)

\* C11: a Sell does not depend on what the caller holds: it is answered 401
\* only when the credential is refused and 500 only when the store refuses the
\* INSERT, and otherwise succeeds and leaves a sell row with the requested
\* quantity, also when that quantity exceeds everything the caller bought.
C11_SellNeedsNoHoldings ==
    last.op = "sell" =>
        /\ last.resp.status \in {200, 401, 500}
        /\ last.resp.status = 401 => ~authorize(last.hdr).ok
        /\ last.resp.status = 500 => StoreRefusal
        /\ last.resp.status = 200 =>
              \E t \in transactions :
                  /\ t.id = last.resp.tx.id
                  /\ t.transaction_type = "sell"
                  /\ t.quantity = last.raw.quantity
                  /\ last.resp.tx.quantity = last.raw.quantity

C11_Witness ==
    /\ last.op = "sell"
    /\ last.resp.status = 200
    /\ PriorBuys(1, last.raw.stock_id) # {}
    /\ last.raw.quantity > SumQuantity(PriorBuys(1, last.raw.stock_id))
    /\ \E t \in transactions :
          t.id = last.resp.tx.id /\ t.quantity = last.raw.quantity

\* The token that a Login of user u at time t issues.
Issued(u, t) == Jwt(to_string(u), t + TokenTTL, Secret)

\* C12: from the Login that issued a token on, whatever requests are handled
\* in between, for as long as the clock has not passed the token's expiry:
\* validate_token maps the token to its subject, authorize accepts it as that
\* user, and no Buy, Sell or List that presents it is answered 401.
C12_NeverRevoked ==
    \A u \in {1, 2}, t \in {StartTime} :
        []( (IssuedNow /\ last.resp.token = Issued(u, t)) =>
              [](clock <= t + TokenTTL =>
                   /\ validate_token(Issued(u, t)) = Some(to_string(u))
                   /\ authorize(Bearer(Issued(u, t))) = Ok(u)
                   /\ (last.op \in AuthorizedOps /\ last.hdr = Bearer(Issued(u, t)))
                        => last.resp.status # 401) )

\* alice's token of StartTime lists her ledger at the instant of its expiry,
\* after a row was written.
C12_Witness ==
    /\ clock = StartTime + TokenTTL
    /\ transactions # {}
    /\ last.op = "list"
    /\ last.hdr = Bearer(Jwt(to_string(1), StartTime + TokenTTL, Secret))
    /\ last.resp.status = 200
    /\ validate_token(last.hdr.token) = Some(to_string(1))

\* C13: in every reachable state, whatever was handled before, a token made
\* by create_token for a Uuid is mapped by validate_token, at the same instant,
\* to exactly the to_string form of that Uuid; and the token a Login has just
\* returned is mapped to the id of the users row the Login named.
C13_IssueThenVerify ==
    /\ \A u \in 1 .. 4 : validate_token(create_token(u)) = Some(to_string(u))
    /\ (IssuedNow /\ clock = last.issuedAt) =>
          \E u \in users :
              /\ u.username = last.login.username
              /\ validate_token(last.resp.token) = Some(to_string(parse_str(u.id).val))

\* alice logs in an hour after the start, after a row was written, and her
\* fresh token verifies as alice.
C13_Witness ==
    /\ IssuedNow
    /\ clock = last.issuedAt
    /\ clock > StartTime
    /\ transactions # {}
    /\ last.login.username = "alice"
    /\ validate_token(last.resp.token) = Some(to_string(1))

C14_WitnessNotFound ==
    /\ last.op = "stock"
    /\ last.symbol = "NONE"
    /\ ~last.dbErr
    /\ last.resp.status = 404

\* C15: every Login, whatever the users table holds, ends as a 200 response
\* with a token or as a 401 response without one.
C15_LoginTwoOutcomes ==
    last.op = "login" =>
        \/ last.resp.status = 200 /\ last.resp.token.wf
        \/ last.resp.status = 401 /\ last.resp.token = MalformedToken

BuySell == {"buy", "sell"}

\* C16: after every step each transactions row names a users row and a stocks
\* row; and an authorized Buy or Sell that names a stock id without a stocks
\* row is answered 500 without a transaction, after one store call, and leaves
\* the transactions as they were.
C16_RowsReferenceRows ==
    [][ /\ \A t \in transactions' :
              /\ \E u \in users' : u.id = t.user_id
              /\ \E k \in StocksTable : k.id = t.stock_id
        /\ ( /\ last' # last
             /\ last'.op \in BuySell
             /\ authorize(last'.hdr).ok
             /\ \A k \in StocksTable : k.id # to_string(last'.raw.stock_id) )
           => /\ last'.resp.status = 500
              /\ last'.resp.tx = NoTx
              /\ last'.storeOps = 1
              /\ transactions' = transactions ]_vars

\* alice's Buy of the stock id 6, which no stocks row has, was refused on a
\* store call that did not fail by itself.
C16_Witness ==
    /\ last.op = "buy"
    /\ last.hdr = Bearer(GoodToken)
    /\ last.raw.stock_id = 6
    /\ ~last.dbErr
    /\ last.storeOps = 1
    /\ last.resp.status = 500
    /\ transactions = {}

\* C17: after every step no two transactions rows have the same id; and a
\* Buy or Sell answered 200 added exactly one row, under the id of the
\* response, which no row had before.
C17_FreshIdentity ==
    [][ /\ \A t1, t2 \in transactions' : t1.id = t2.id => t1 = t2
        /\ (last' # last /\ last'.op \in BuySell /\ last'.resp.status = 200)
           => \E r \in transactions' :
                 /\ r \notin transactions
                 /\ transactions' = transactions \cup {r}
                 /\ r.id = last'.resp.tx.id
                 /\ r.id = to_string(last'.id)
                 /\ \A t \in transactions : t.id # r.id ]_vars

\* Two rows under two ids, the second written by a Buy.
C17_Witness ==
    /\ last.op = "buy"
    /\ last.resp.status = 200
    /\ \E t1, t2 \in transactions :
          /\ t1.id # t2.id
          /\ t2.id = last.resp.tx.id
          /\ t1.transaction_type = "sell"

\* C18: a Buy or Sell answered 200 carries the quantity of the request in its
\* response and in the row it wrote, be it negative, zero or positive; and a
\* Buy or Sell is answered otherwise only for its credential (401) or for the
\* store's refusal of the INSERT (500), never for its quantity.
C18_QuantityVerbatim ==
    last.op \in BuySell =>
        /\ last.resp.status = 200 =>
              /\ last.resp.tx.quantity = last.raw.quantity
              /\ \E t \in transactions :
                    t.id = last.resp.tx.id /\ t.quantity = last.raw.quantity
        /\ last.resp.status # 200 =>
              \/ last.resp.status = 401 /\ ~authorize(last.hdr).ok
              \/ last.resp.status = 500 /\ authorize(last.hdr).ok /\ StoreRefusal

\* A Sell of the quantity -1 was recorded as it came.
C18_Witness ==
    /\ last.op = "sell"
    /\ last.raw.quantity = -1
    /\ last.resp.status = 200
    /\ last.resp.tx.quantity = -1
    /\ \E t \in transactions : t.id = last.resp.tx.id /\ t.quantity = -1

\* A Buy of the quantity 0 was recorded as it came.
C18_WitnessZero ==
    /\ last.op = "buy"
    /\ last.raw.quantity = 0
    /\ last.resp.status = 200
    /\ \E t \in transactions : t.id = last.resp.tx.id /\ t.quantity = 0

\* C19: an authorized Buy or Sell whose INSERT fails, because the store call
\* fails or because the store refuses the row, is answered 500 without a
\* transaction, after exactly one store call, and leaves the transactions as
\* they were.
C19_FailedWriteIsFinal ==
    [][ ( /\ last' # last
          /\ last'.op \in BuySell
          /\ authorize(last'.hdr).ok
          /\ \/ last'.dbErr
             \/ \E t \in transactions : t.id = to_string(last'.id)
             \/ ~(\E u \in users : u.id = Principal(last'.hdr.token))
             \/ ~(\E k \in StocksTable : k.id = to_string(last'.raw.stock_id)) )
        => /\ last'.resp.status = 500
           /\ last'.resp.tx = NoTx
           /\ last'.storeOps = 1
           /\ transactions' = transactions ]_vars

\* A Buy whose store call failed while the ledger holds a row under the other
\* identity: answered 500 after one call, and no row under its identity.
C19_Witness ==
    /\ last.op = "buy"
    /\ last.dbErr
    /\ last.storeOps = 1
    /\ last.resp.status = 500
    /\ last.resp.tx = NoTx
    /\ transactions # {}
    /\ \A t \in transactions : t.id # to_string(last.id)

\* C20: at most max_connections connections are out at any time; a request
\* gets its connection from the pool only while fewer are out, holds it for
\* its one store call and has returned it when the handler answers, and no
\* handler answers after a store call without having held one; and a request
\* that waits for a connection leaves the wait, with a connection unless the
\* pool gave up on it.
C20_PoolCeiling ==
    /\ [](InUse <= MaxConnections)
    /\ [][ \A r \in Slots :
              /\ (conn[r] # "holding" /\ conn'[r] = "holding")
                 => conn[r] = "waiting" /\ InUse < MaxConnections /\ last' = last
              /\ (conn[r] = "holding" /\ conn'[r] # "holding")
                 => conn'[r] = "idle" /\ last'.storeOps = 1
              /\ (conn[r] = "waiting" /\ conn'[r] = "idle")
                 => last'.dbErr ]_vars
    /\ \A r \in Slots : (conn[r] = "waiting") ~> (conn[r] # "waiting")

\* The pool is exhausted and a request waits.
C20_Witness ==
    /\ InUse = MaxConnections
    /\ \E r \in Slots : conn[r] = "waiting"
    /\ last.storeOps = 1

====
